---- MODULE Spec2Model ----
(***************************************************************************)
(* Trackr (src/src/extension.ts): a VS Code extension that mirrors the     *)
(* latest commit of the open workspace into the file git.trackr.log of the *)
(* GitHub repository TrackrGitLog.                                         *)
(*                                                                         *)
(* Strings are sequences of one-character strings, so that the log-line    *)
(* format and the regular expression that parses it are computed, not      *)
(* assumed.  JavaScript runs the handlers on one thread: the code between  *)
(* two awaits is one atomic action.  A call to GitHub is two actions: the  *)
(* store serving the request, and the continuation of the awaiting code    *)
(* when the response arrives.                                              *)
(***************************************************************************)
EXTENDS Integers, Sequences, FiniteSets, TLC

\* ------------------------------------------------------------- bounds ----
MaxEvents == 1
MaxLen == 5
MaxMsg == 2

\* ------------------------------------------------------------ strings ----
Empty == <<>>

IsDot(ch) == ch \notin {"\n", "\r"}

IsSpace(ch) == ch \in {" ", "\n", "\r", "\t"}

\* line.trim(): the line without its leading and trailing white space
Trim(line) ==
    LET solid == {k \in 1..Len(line) : ~IsSpace(line[k])}
    IN  IF solid = {} THEN Empty
        ELSE SubSeq(line, CHOOSE k \in solid : \A m \in solid : k <= m,
                          CHOOSE k \in solid : \A m \in solid : m <= k)

\* the text not split: one line
SplitNone(s) == <<s>>

\* text.split('\n'): the pieces between consecutive newlines
Split(s) ==
    LET nl == {k \in 1..Len(s) : s[k] = "\n"}
        Nth(m) == CHOOSE p \in nl : Cardinality({q \in nl : q < p}) = m - 1
        From(m) == IF m = 1 THEN 1 ELSE Nth(m - 1) + 1
        To(m) == IF m = Cardinality(nl) + 1 THEN Len(s) ELSE Nth(m) - 1
    IN  [m \in 1..(Cardinality(nl) + 1) |-> SubSeq(s, From(m), To(m))]

\* -------------------------------------------- /\[(.*?)\] (.*?):/ --------
NoMatch == [ok |-> FALSE, date |-> Empty, hash |-> Empty]

\* a greedy (.*): the longest run of characters that a ':' follows
RECURSIVE ScanHashGreedy(_, _, _, _)
ScanHashGreedy(line, date, s, k) ==
    IF k > Len(line) THEN NoMatch
    ELSE LET rest == IF IsDot(line[k]) THEN ScanHashGreedy(line, date, s, k + 1)
                     ELSE NoMatch
         IN  IF rest.ok THEN rest
             ELSE IF line[k] = ":"
                  THEN [ok |-> TRUE, date |-> date, hash |-> SubSeq(line, s, k - 1)]
             ELSE NoMatch

\* (.*?): from s on, the shortest run of characters that a ':' follows
RECURSIVE ScanHash(_, _, _, _)
ScanHash(line, date, s, k) ==
    IF k > Len(line) THEN NoMatch
    ELSE IF line[k] = ":"
         THEN [ok |-> TRUE, date |-> date, hash |-> SubSeq(line, s, k - 1)]
    ELSE IF IsDot(line[k]) THEN ScanHash(line, date, s, k + 1)
    ELSE NoMatch

\* \[(.*?)\] : from i + 1 on, the shortest run that "] " and the rest follow
RECURSIVE ScanDate(_, _, _)
ScanDate(line, i, j) ==
    IF j > Len(line) THEN NoMatch
    ELSE LET here == IF j + 1 <= Len(line) /\ line[j] = "]" /\ line[j + 1] = " "
                     THEN ScanHash(line, SubSeq(line, i + 1, j - 1), j + 2, j + 2)
                     ELSE NoMatch
         IN  IF here.ok THEN here
             ELSE IF IsDot(line[j]) THEN ScanDate(line, i, j + 1)
             ELSE NoMatch

\* an unanchored match: the leftmost '[' from which the pattern matches
RECURSIVE ScanStart(_, _)
ScanStart(line, i) ==
    IF i > Len(line) THEN NoMatch
    ELSE LET here == IF line[i] = "[" THEN ScanDate(line, i, i + 1) ELSE NoMatch
         IN  IF here.ok THEN here ELSE ScanStart(line, i + 1)

Match(line) == ScanStart(line, 1)

\* match[1]: the timestamp instead of the hash
PickDate(m) == m.date

\* match[2]
Pick(m) == m.hash

ParseHashes(text) ==
    LET lines == SelectSeq(Split(text), LAMBDA line : Trim(line) # Empty)
    IN  {Pick(Match(lines[n])) : n \in {m \in 1..Len(lines) : Match(lines[m]).ok}}

\* ------------------------------------------------------------ commits ----
NoCommit == [hash |-> Empty, message |-> Empty, date |-> Empty]

CommitA == [hash |-> <<"d", "e", "a", "d", "b", "e", "e", "f">>,
            message |-> <<"I", "n", "i", "t", "i", "a", "l", " ", "c", "o", "m", "m", "i", "t">>,
            date |-> <<"2", "0", "2", "4", "-", "0", "1", "-", "0", "1", "T", "0", "0", ":", "0", "0", ":", "0", "0", "Z">>]

CommitB == [hash |-> <<"b", "1">>,
            message |-> <<"f", "i", "x", ":", " ", "[", "x", "]", " ", "y", ":">>,
            date |-> <<"2", "0", "2", "4", "-", "0", "2", "-", "0", "2">>]

LocalCommits == {CommitA, CommitB}

Digit(n) == IF n = 0 THEN "0" ELSE IF n = 1 THEN "1" ELSE IF n = 2 THEN "2"
            ELSE IF n = 3 THEN "3" ELSE IF n = 4 THEN "4" ELSE "9"

ExternalCommit(n) == [hash |-> <<"e", Digit(n)>>,
                      message |-> <<"x">>,
                      date |-> <<"2", "0", "2", "3">>]

ExternalCommits == {ExternalCommit(n) : n \in 1..(MaxEvents + 1)}

AllCommits == LocalCommits \cup ExternalCommits

\* the entry without the blank after the colon
LogEntryNoBlank(c) == <<"[">> \o c.date \o <<"]", " ">> \o c.hash \o <<":">> \o c.message \o <<"\n">>

\* `[${date}] ${hash}: ${message}\n`
LogEntry(c) == <<"[">> \o c.date \o <<"]", " ">> \o c.hash \o <<":", " ">> \o c.message \o <<"\n">>

\* the fetched content dropped
NewContentDropped(content, logEntry) == logEntry

\* content = content + logEntry
NewContent(content, logEntry) == content \o logEntry

\* -------------------------------------------------------------- state ----
VARIABLES
    ws,           \* the workspace: "nofolder", "notrepo" or "repo"
    head,         \* the commit git log -1 returns (NoCommit: no commits yet)
    remote,       \* git.trackr.log in TrackrGitLog: [exists, content]
    ext,          \* number of appends made by other writers
    processedCommits, \* the module-level Set of hashes (the ledger)
    mirror,       \* ~/git.trackr.log: [written, content]
    workspaceState,   \* context.workspaceState 'processedCommits': [written, value]
    watching,     \* the git watcher is registered
    loads,        \* number of calls of loadProcessedCommits so far
    lpc, lresp,   \* loadProcessedCommits: position, response of getContent
    pc,           \* position of each trackGitChange invocation
    cur,          \* {hash, message, date} of the running call
    content, sha, \* the locals content and sha of the running call
    resp,         \* response of the call to GitHub the invocation awaits
    first,        \* history: the commit the invocation's first call read
    conflicts,    \* history: number of 409 answers the invocation received
    fetches,      \* history: getContent requests the invocation issued
    writes,       \* history: createOrUpdateFileContents requests issued
    startLedger   \* history: processedCommits when the invocation started

vars == <<ws, head, remote, ext, processedCommits, mirror, workspaceState,
          watching, loads, lpc, lresp, pc, cur, content, sha, resp, first,
          conflicts, fetches, writes, startLedger>>

envVars == <<ws, head, ext>>
loadVars == <<watching, loads, lpc, lresp>>
histVars == <<first, conflicts, fetches, writes, startLedger>>

\* two watcher events can be in flight at a time
Invocations == {1, 2}

Absent == [exists |-> FALSE, content |-> Empty]
File(text) == [exists |-> TRUE, content |-> text]

NoSha == [some |-> FALSE, val |-> Empty]
\* the sha of a file is its blob sha: it identifies the content
ShaOf(text) == [some |-> TRUE, val |-> text]
RemoteSha == IF remote.exists THEN ShaOf(remote.content) ELSE NoSha

NoResp == [kind |-> "none", content |-> Empty]
Resp(kind) == [kind |-> kind, content |-> Empty]
RespContent(text) == [kind |-> "ok", content |-> text]

Unwritten == [written |-> FALSE, content |-> Empty]
Unsaved == [written |-> FALSE, value |-> {}]

\* events from outside the invocations so far: appends of other writers and
\* calls of initializeGitHub after the first
Events == ext + (IF loads = 0 THEN 0 ELSE loads - 1)

Terminal == {"returned", "skipped", "recorded", "failed"}

InitialContents == {Absent, File(LogEntry(CommitA))}

Init ==
    /\ ws \in {"nofolder", "notrepo", "repo"}
    /\ head = NoCommit
    /\ remote \in InitialContents
    /\ ext = 0
    /\ processedCommits = {}
    /\ mirror = Unwritten
    /\ workspaceState = Unsaved
    /\ watching = FALSE
    /\ loads = 0
    /\ lpc = "idle"
    /\ lresp = NoResp
    /\ pc = [i \in Invocations |-> "idle"]
    /\ cur = [i \in Invocations |-> NoCommit]
    /\ content = [i \in Invocations |-> Empty]
    /\ sha = [i \in Invocations |-> NoSha]
    /\ resp = [i \in Invocations |-> NoResp]
    /\ first = [i \in Invocations |-> NoCommit]
    /\ conflicts = [i \in Invocations |-> 0]
    /\ fetches = [i \in Invocations |-> 0]
    /\ writes = [i \in Invocations |-> 0]
    /\ startLedger = [i \in Invocations |-> {}]

\* ---------------------------------------------------------- environment --
\* the user commits: the latest commit becomes a new one
NextCommit(c) == IF c = NoCommit THEN CommitA ELSE CommitB

Commit ==
    /\ ws = "repo"
    /\ head # CommitB
    /\ head' = NextCommit(head)
    /\ UNCHANGED <<ws, remote, ext, processedCommits, mirror, workspaceState,
                   loadVars, pc, cur, content, sha, resp, histVars>>

\* another writer of TrackrGitLog appends the entry of a commit of its own
ExternalAppend ==
    /\ Events < MaxEvents
    /\ ext' = ext + 1
    /\ remote' = File(NewContent(remote.content, LogEntry(ExternalCommit(ext + 1))))
    /\ UNCHANGED <<ws, head, processedCommits, mirror, workspaceState,
                   loadVars, pc, cur, content, sha, resp, histVars>>

\* -------------------------------------------------- loadProcessedCommits --
\* initializeGitHub calls loadProcessedCommits; the store serves its getContent
LoadGet ==
    /\ lpc = "idle"
    /\ loads = 0 \/ Events < MaxEvents
    /\ loads' = loads + 1
    /\ lpc' = "resp"
    /\ \/ remote.exists /\ lresp' = RespContent(remote.content)
       \/ ~remote.exists /\ lresp' = Resp("404")
       \/ lresp' = Resp("error")
    /\ UNCHANGED <<envVars, remote, processedCommits, mirror, workspaceState,
                   watching, pc, cur, content, sha, resp, histVars>>

\* the response arrives: parse it into the ledger, or swallow the failure
LoadDone ==
    /\ lpc = "resp"
    /\ lpc' = "idle"
    /\ lresp' = NoResp
    /\ processedCommits' = IF lresp.kind = "ok"
                           THEN processedCommits \cup ParseHashes(lresp.content)
                           ELSE processedCommits
    /\ watching' = TRUE
    /\ UNCHANGED loads
    /\ UNCHANGED <<envVars, remote, mirror, workspaceState,
                   pc, cur, content, sha, resp, histVars>>

\* ---------------------------------------------------------- trackGitChange
\* lines 104-112: where a call of trackGitChange first awaits
Enter == IF ws = "nofolder" THEN "returned" ELSE "repo"

\* a dedup check that never finds the hash
HasNever(ledger, hash) == FALSE

\* processedCommits.has(hash)
Has(ledger, hash) == hash \in ledger

\* the watcher fires and calls trackGitChange
Trigger(i) ==
    /\ watching
    /\ pc[i] = "idle"
    /\ \A j \in Invocations : j < i => pc[j] # "idle"
    /\ pc' = [pc EXCEPT ![i] = Enter]
    /\ startLedger' = [startLedger EXCEPT ![i] = processedCommits]
    /\ UNCHANGED <<envVars, remote, processedCommits, mirror, workspaceState,
                   loadVars, cur, content, sha, resp, first, conflicts,
                   fetches, writes>>

\* git.checkIsRepo() resolves
CheckIsRepoDone(i) ==
    /\ pc[i] = "repo"
    /\ pc' = [pc EXCEPT ![i] = IF ws = "repo" THEN "log" ELSE "returned"]
    /\ UNCHANGED <<envVars, remote, processedCommits, mirror, workspaceState,
                   loadVars, cur, content, sha, resp, histVars>>

\* a log that always reports a latest commit
NoLatestNever(c) == FALSE

\* line 118: !log.latest
NoLatest(c) == c = NoCommit

\* git.log(['-1']) resolves; the dedup check; octokit.users.getAuthenticated
GitLogDone(i) ==
    /\ pc[i] = "log"
    /\ IF NoLatest(head)
       THEN /\ pc' = [pc EXCEPT ![i] = "returned"]
            /\ UNCHANGED <<cur, first>>
       ELSE /\ cur' = [cur EXCEPT ![i] = head]
            /\ first' = [first EXCEPT ![i] = IF conflicts[i] = 0 THEN head ELSE @]
            /\ pc' = [pc EXCEPT ![i] = IF Has(processedCommits, head.hash)
                                       THEN "skipped" ELSE "auth"]
    /\ UNCHANGED <<envVars, remote, processedCommits, mirror, workspaceState,
                   loadVars, content, sha, resp, conflicts, fetches, writes,
                   startLedger>>

\* getAuthenticated resolves and the store serves the getContent that
\* follows it, or getAuthenticated rejects
StoreGet(i) ==
    /\ pc[i] = "auth"
    /\ \/ /\ pc' = [pc EXCEPT ![i] = "fetch_resp"]
          /\ fetches' = [fetches EXCEPT ![i] = @ + 1]
          /\ \/ remote.exists /\ resp' = [resp EXCEPT ![i] = RespContent(remote.content)]
             \/ ~remote.exists /\ resp' = [resp EXCEPT ![i] = Resp("404")]
             \/ resp' = [resp EXCEPT ![i] = Resp("error")]
       \/ /\ pc' = [pc EXCEPT ![i] = "failed"]
          /\ UNCHANGED <<fetches, resp>>
    /\ UNCHANGED <<envVars, remote, processedCommits, mirror, workspaceState,
                   loadVars, cur, content, sha, first, conflicts, writes,
                   startLedger>>

\* a sha kept from before the fetch: none
TagOfNone(r) == NoSha

\* sha = existing.sha, or undefined after a 404
TagOf(r) == IF r.kind = "ok" THEN ShaOf(r.content) ELSE NoSha

\* the response of getContent arrives: lines 142-169
FetchDone(i) ==
    /\ pc[i] = "fetch_resp"
    /\ IF resp[i].kind = "error"
       THEN /\ pc' = [pc EXCEPT ![i] = "failed"]
            /\ UNCHANGED <<content, sha, mirror, writes>>
       ELSE LET text == NewContent(resp[i].content, LogEntry(cur[i]))
            IN  /\ content' = [content EXCEPT ![i] = text]
                /\ sha' = [sha EXCEPT ![i] = TagOf(resp[i])]
                /\ mirror' = [written |-> TRUE, content |-> text]
                /\ writes' = [writes EXCEPT ![i] = @ + 1]
                /\ pc' = [pc EXCEPT ![i] = "writing"]
    /\ resp' = [resp EXCEPT ![i] = NoResp]
    /\ UNCHANGED <<envVars, remote, processedCommits, workspaceState,
                   loadVars, cur, first, conflicts, fetches, startLedger>>

\* the store serves createOrUpdateFileContents: it writes when the sha
\* supplied is the file's, and answers 409 when it is not
StorePut(i) ==
    /\ pc[i] = "writing"
    /\ pc' = [pc EXCEPT ![i] = "write_resp"]
    /\ \/ /\ sha[i] = RemoteSha
          /\ remote' = File(content[i])
          /\ resp' = [resp EXCEPT ![i] = Resp("ok")]
       \/ /\ sha[i] # RemoteSha
          /\ resp' = [resp EXCEPT ![i] = Resp("409")]
          /\ UNCHANGED remote
       \/ /\ resp' = [resp EXCEPT ![i] = Resp("error")]
          /\ UNCHANGED remote
    /\ UNCHANGED <<envVars, processedCommits, mirror, workspaceState,
                   loadVars, cur, content, sha, histVars>>

\* a catch that retries after every failure
AfterWriteRetryAll(kind) ==
    IF kind = "ok" THEN "recorded"
    ELSE "retry"

\* a catch that retries after an accepted write too
AfterWriteRetryOk(kind) ==
    IF kind = "error" THEN "failed"
    ELSE "retry"

\* lines 176-183: what the catch around the write does with its outcome
AfterWrite(kind) ==
    IF kind = "ok" THEN "recorded"
    ELSE IF kind = "409" THEN "retry"
    ELSE "failed"

\* the set replaced by the hash alone
RecordOnly(ledger, hash) == {hash}

\* the hash not recorded
RecordNothing(ledger, hash) == ledger

\* processedCommits.add(hash)
Record(ledger, hash) == ledger \cup {hash}

\* a workspace state that is given an empty list
PersistedEmpty(ledger) == [written |-> TRUE, value |-> {}]

\* line 173: workspaceState.update('processedCommits', Array.from(processedCommits))
Persisted(ledger) == [written |-> TRUE, value |-> ledger]

\* the response of createOrUpdateFileContents arrives: lines 171-188
WriteDone(i) ==
    /\ pc[i] = "write_resp"
    /\ \/ /\ AfterWrite(resp[i].kind) = "recorded"
          /\ processedCommits' = Record(processedCommits, cur[i].hash)
          /\ workspaceState' = Persisted(processedCommits')
          /\ pc' = [pc EXCEPT ![i] = "recorded"]
          /\ UNCHANGED conflicts
       \/ /\ AfterWrite(resp[i].kind) = "retry"
          /\ conflicts' = [conflicts EXCEPT ![i] = @ + 1]
          /\ pc' = [pc EXCEPT ![i] = Enter]
          /\ UNCHANGED <<processedCommits, workspaceState>>
       \/ /\ AfterWrite(resp[i].kind) = "failed"
          /\ pc' = [pc EXCEPT ![i] = "failed"]
          /\ UNCHANGED <<processedCommits, workspaceState, conflicts>>
    /\ resp' = [resp EXCEPT ![i] = NoResp]
    /\ content' = [content EXCEPT ![i] = Empty]
    /\ sha' = [sha EXCEPT ![i] = NoSha]
    /\ UNCHANGED <<envVars, remote, mirror, loadVars, cur, first,
                   fetches, writes, startLedger>>

Next ==
    \/ Commit
    \/ ExternalAppend
    \/ LoadGet
    \/ LoadDone
    \/ \E i \in Invocations :
          \/ Trigger(i)
          \/ CheckIsRepoDone(i)
          \/ GitLogDone(i)
          \/ StoreGet(i)
          \/ FetchDone(i)
          \/ StorePut(i)
          \/ WriteDone(i)

Spec == Init /\ [][Next]_vars


\* ------------------------------------------- loading arbitrary content ----
Alphabet == {"[", "]", " ", ":", "\n", "a"}

Texts == UNION {[1..n -> Alphabet] : n \in 0..MaxLen}

MalformedExample == <<"n", "o", "t", " ", "a", " ", "l", "o", "g", " ", "l", "i", "n", "e", "\n", "[", "2", "0", "2", "4", "]", " ", "a", "b", "c", "1", "2", "3", ":", " ", "f", "i", "x", " ", "b", "u", "g", "\n">>

InitLoad ==
    /\ ws = "repo"
    /\ head = NoCommit
    /\ remote \in {Absent} \cup {File(t) : t \in Texts \cup {MalformedExample}}
    /\ ext = 0
    /\ processedCommits = {}
    /\ mirror = Unwritten
    /\ workspaceState = Unsaved
    /\ watching = FALSE
    /\ loads = 0
    /\ lpc = "idle"
    /\ lresp = NoResp
    /\ pc = [i \in Invocations |-> "idle"]
    /\ cur = [i \in Invocations |-> NoCommit]
    /\ content = [i \in Invocations |-> Empty]
    /\ sha = [i \in Invocations |-> NoSha]
    /\ resp = [i \in Invocations |-> NoResp]
    /\ first = [i \in Invocations |-> NoCommit]
    /\ conflicts = [i \in Invocations |-> 0]
    /\ fetches = [i \in Invocations |-> 0]
    /\ writes = [i \in Invocations |-> 0]
    /\ startLedger = [i \in Invocations |-> {}]

NextLoad ==
    \/ LoadGet
    \/ LoadDone

SpecLoad == InitLoad /\ [][NextLoad]_vars

\* ------------------------------------------- loading serialized entries ----
\* hashes, dates and messages as git log gives them: a hash of hexadecimal
\* digits, a date of digits, blanks and colons, a subject line of any
\* characters but a line break
RoundHashes == {<<"a">>, <<"1", "a">>}

RoundDates == {<<"2">>, <<"2", " ", "0", ":", "0">>}

MsgAlphabet == {"]", " ", ":", "a"}

RoundMessages == UNION {[1..n -> MsgAlphabet] : n \in 0..MaxMsg}

RoundCommits == [hash : RoundHashes, message : RoundMessages, date : RoundDates]

PlainCommits == {c \in RoundCommits : c.message = Empty}

\* no entry, one entry, or two entries of which one has an empty message
RoundTexts ==
    {Empty} \cup {LogEntry(c) : c \in RoundCommits}
            \cup {NewContent(LogEntry(c), LogEntry(d)) : c \in RoundCommits, d \in PlainCommits}
            \cup {NewContent(LogEntry(d), LogEntry(c)) : c \in RoundCommits, d \in PlainCommits}

InitRound ==
    /\ ws = "repo"
    /\ head = NoCommit
    /\ remote \in {File(t) : t \in RoundTexts}
    /\ ext = 0
    /\ processedCommits = {}
    /\ mirror = Unwritten
    /\ workspaceState = Unsaved
    /\ watching = FALSE
    /\ loads = 0
    /\ lpc = "idle"
    /\ lresp = NoResp
    /\ pc = [i \in Invocations |-> "idle"]
    /\ cur = [i \in Invocations |-> NoCommit]
    /\ content = [i \in Invocations |-> Empty]
    /\ sha = [i \in Invocations |-> NoSha]
    /\ resp = [i \in Invocations |-> NoResp]
    /\ first = [i \in Invocations |-> NoCommit]
    /\ conflicts = [i \in Invocations |-> 0]
    /\ fetches = [i \in Invocations |-> 0]
    /\ writes = [i \in Invocations |-> 0]
    /\ startLedger = [i \in Invocations |-> {}]

SpecRound == InitRound /\ [][NextLoad]_vars

\* ------------------------------------------------------------- claims ----
Lines(text) == Split(text)

\* the lines of text that are the log entry of a commit with this hash
EntryLines(text, hash) ==
    LET lines == Lines(text)
    IN  {n \in 1..Len(lines) :
            \E c \in AllCommits : c.hash = hash /\ lines[n] \o <<"\n">> = LogEntry(c)}

EntryCount(text, hash) == Cardinality(EntryLines(text, hash))

HasEntry(text, hash) == EntryLines(text, hash) # {}

IsPrefix(s, t) == Len(s) <= Len(t) /\ SubSeq(t, 1, Len(s)) = s

Stepped(i) == pc'[i] # pc[i]

AllDone == \A i \in Invocations : pc[i] \in Terminal

\* C1: the remote log holds at most one LogEntry for any commit hash.
\* The code does not ensure it: loadProcessedCommits swallows a failed load, and
\* the dedup check then passes for a commit the log already holds.
C1_AtMostOneEntry ==
    \A c \in AllCommits : EntryCount(remote.content, c.hash) <= 1

\* C2: when an invocation started for commit A and one started for commit B
\* have both ended and none failed, the remote log holds an entry for A and
\* an entry for B.  The code retries a conflict by calling trackGitChange
\* again, which reads the latest commit anew: the retry of A's invocation
\* finds B and A is never written.
C2_BothCommitsAppear ==
    (/\ AllDone
     /\ \A i \in Invocations : pc[i] # "failed"
     /\ first[1] = CommitA
     /\ first[2] = CommitB)
    => (/\ HasEntry(remote.content, CommitA.hash)
        /\ HasEntry(remote.content, CommitB.hash))

\* C3: a write of an invocation that the store accepts makes the remote
\* content the content before it followed by the entry of the invocation's
\* commit, and every step leaves the earlier content a prefix of the new one.
C3_AppendOnly ==
    [][/\ \A i \in Invocations :
            (pc[i] = "writing" /\ pc'[i] = "write_resp" /\ resp'[i].kind = "ok")
            => (remote'.exists /\ remote'.content = remote.content \o LogEntry(cur[i]))
       /\ IsPrefix(remote.content, remote'.content)
       /\ (remote.exists => remote'.exists)]_vars

C3_Witness ==
    \E i \in Invocations :
        /\ pc[i] = "write_resp" /\ resp[i].kind = "ok"
        /\ conflicts[i] > 0
        /\ HasEntry(remote.content, ExternalCommit(1).hash)
        /\ HasEntry(remote.content, cur[i].hash)

\* C4: an invocation that starts with the hash of the commit it reads in the
\* ledger ends skipped, has issued no getContent and no write, and its steps
\* leave the ledger, the remote log and the mirror unchanged.
C4_DedupFastPath ==
    /\ [](\A i \in Invocations :
            (first[i] # NoCommit /\ first[i].hash \in startLedger[i])
            => (pc[i] = "skipped" /\ fetches[i] = 0 /\ writes[i] = 0))
    /\ [][\A i \in Invocations :
            (Stepped(i) /\ pc[i] \in {"idle", "repo", "log"} /\ conflicts[i] = 0)
            => UNCHANGED <<processedCommits, remote, mirror>>]_vars

C4_Witness ==
    \E i \in Invocations :
        /\ pc[i] = "skipped"
        /\ first[i].hash \in startLedger[i]
        /\ remote.exists

\* C5: every hash in the ledger has an entry in the remote log, and an
\* invocation adds a hash only on the confirmation of its write of that hash.
C5_LedgerSound ==
    /\ [](\A h \in processedCommits : HasEntry(remote.content, h))
    /\ [][\A i \in Invocations :
            (Stepped(i) /\ processedCommits' # processedCommits)
            => (/\ pc[i] = "write_resp" /\ resp[i].kind = "ok"
                /\ processedCommits' = processedCommits \cup {cur[i].hash}
                /\ HasEntry(remote.content, cur[i].hash))]_vars

C5_Witness ==
    /\ ExternalCommit(1).hash \in processedCommits
    /\ \E i \in Invocations : pc[i] = "recorded" /\ cur[i].hash \in processedCommits

InWindow == \E i \in Invocations : pc[i] = "write_resp" /\ resp[i].kind = "ok"

\* C6 as stated: once the ledger is loaded and outside the window between a
\* confirmation and its record step, a hash is in the ledger if and only if
\* the remote log has an entry for it.
C6_LedgerExact ==
    (watching /\ lpc = "idle" /\ ~InWindow)
    => \A c \in AllCommits :
          c.hash \in processedCommits <=> HasEntry(remote.content, c.hash)

\* C6 amended: every hash in the ledger has an entry in the remote log, and
\* the commit of every invocation that ended recorded is in the ledger; an
\* entry of the remote log need not be in the ledger.
C6_LedgerCoversOwnAppends ==
    /\ \A c \in AllCommits :
          c.hash \in processedCommits => HasEntry(remote.content, c.hash)
    /\ \A i \in Invocations :
          pc[i] = "recorded"
          => (cur[i].hash \in processedCommits /\ HasEntry(remote.content, cur[i].hash))

C6_Witness ==
    /\ watching /\ lpc = "idle" /\ ~InWindow
    /\ \E i \in Invocations : pc[i] = "recorded"
    /\ HasEntry(remote.content, ExternalCommit(1).hash)
    /\ ExternalCommit(1).hash \notin processedCommits

\* C7: a failure of the fetch or of the write that is no conflict (and, for
\* the fetch, no 404) ends the invocation as failed, inside trackGitChange:
\* that step changes neither the remote log nor the ledger, a failed
\* invocation issues no further request, and a later invocation that reads
\* the same commit, while its hash is not in the ledger, goes on to fetch.
C7_FatalFailure ==
    [][\A i \in Invocations :
          /\ (pc[i] \in {"fetch_resp", "write_resp"} /\ resp[i].kind = "error" /\ Stepped(i))
             => (/\ pc'[i] = "failed"
                 /\ UNCHANGED <<remote, processedCommits>>
                 /\ writes'[i] = writes[i])
          /\ pc[i] = "failed"
             => (pc'[i] = "failed" /\ fetches'[i] = fetches[i] /\ writes'[i] = writes[i])
          /\ \A j \in Invocations :
                (/\ pc[i] = "failed" /\ pc[j] = "log" /\ Stepped(j)
                 /\ head = cur[i] /\ head.hash \notin processedCommits)
                => pc'[j] = "auth"]_vars

C7_Witness ==
    /\ pc[1] = "failed" /\ writes[1] = 1
    /\ pc[2] = "recorded" /\ cur[2] = cur[1]

DeadbeefLog == <<"[", "2", "0", "2", "4", "-", "0", "1", "-", "0", "1", "T", "0", "0", ":", "0", "0", ":", "0", "0", "Z", "]", " ", "d", "e", "a", "d", "b", "e", "e", "f", ":", " ", "I", "n", "i", "t", "i", "a", "l", " ", "c", "o", "m", "m", "i", "t", "\n">>

\* C8: after a 404 the write carries no sha and the whole new entry; when the
\* store accepts a write without sha the remote content is that one entry
\* (for the commit deadbeef, the line of the end-to-end scenario), and
\* recording it into an empty ledger leaves exactly its hash.
C8_FreshRemoteFile ==
    [][\A i \in Invocations :
          /\ (pc[i] = "fetch_resp" /\ resp[i].kind = "404" /\ Stepped(i))
             => (/\ pc'[i] = "writing"
                 /\ sha'[i] = NoSha
                 /\ content'[i] = LogEntry(cur[i]))
          /\ (/\ pc[i] = "writing" /\ sha[i] = NoSha
              /\ pc'[i] = "write_resp" /\ resp'[i].kind = "ok")
             => (/\ ~remote.exists
                 /\ remote' = File(LogEntry(cur[i]))
                 /\ cur[i] = CommitA => remote'.content = DeadbeefLog)
          /\ (/\ pc[i] = "write_resp" /\ resp[i].kind = "ok" /\ Stepped(i)
              /\ processedCommits = {})
             => processedCommits' = {cur[i].hash}]_vars

C8_Witness ==
    /\ remote.content = DeadbeefLog
    /\ processedCommits = {CommitA.hash}
    /\ \E i \in Invocations : pc[i] = "recorded" /\ conflicts[i] = 0 /\ cur[i] = CommitA

\* the largest number of retries the model can hold an invocation to
RetryBound == MaxEvents

\* C9: an invocation retries a conflict at most a fixed number of times.
\* The code has no such bound: it retries every 409.
C9_BoundedRetry ==
    \A i \in Invocations : conflicts[i] <= RetryBound

\* the pattern [<timestamp>] <hash>: at positions i, j, k of a line
MatchAt(line, i, j, k) ==
    /\ line[i] = "["
    /\ i < j /\ j + 1 <= Len(line)
    /\ line[j] = "]" /\ line[j + 1] = " "
    /\ j + 2 <= k /\ k <= Len(line)
    /\ line[k] = ":"
    /\ \A m \in ((i + 1)..(j - 1)) \cup ((j + 2)..(k - 1)) : IsDot(line[m])

MatchesOf(line) ==
    {t \in (1..Len(line)) \X (1..Len(line)) \X (1..Len(line)) :
        MatchAt(line, t[1], t[2], t[3])}

Before(s, t) ==
    \/ s[1] < t[1]
    \/ s[1] = t[1] /\ s[2] < t[2]
    \/ s[1] = t[1] /\ s[2] = t[2] /\ s[3] <= t[3]

HashField(line) ==
    LET t == CHOOSE s \in MatchesOf(line) : \A u \in MatchesOf(line) : Before(s, u)
    IN  SubSeq(line, t[2] + 2, t[3] - 1)

HashFields(text) ==
    LET lines == Lines(text)
    IN  {HashField(lines[n]) :
            n \in {m \in 1..Len(lines) : lines[m] # Empty /\ MatchesOf(lines[m]) # {}}}

\* C10: for any content, the load ends and adds to the ledger exactly the
\* hash fields of the non-empty lines that match [<timestamp>] <hash>: ;
\* "not a log line\n[2024] abc123: fix bug\n" gives exactly {"abc123"}.
C10_LoadTotal ==
    [][/\ (lpc = "resp" /\ lresp.kind = "ok")
          => (/\ lpc' = "idle"
              /\ processedCommits' = processedCommits \cup HashFields(lresp.content))
       /\ (lpc = "resp" /\ lresp.kind # "ok")
          => (lpc' = "idle" /\ UNCHANGED processedCommits)
       /\ (lpc = "resp" /\ lresp.kind = "ok" /\ lresp.content = MalformedExample
           /\ processedCommits = {})
          => processedCommits' = {<<"a", "b", "c", "1", "2", "3">>}]_vars

C10_Witness ==
    /\ remote.content = MalformedExample
    /\ loads > 0 /\ lpc = "idle"
    /\ processedCommits = {<<"a", "b", "c", "1", "2", "3">>}

\* the hashes of the commits of a set whose log entry is a line of the text
EntryHashes(text, commits) ==
    LET lines == Lines(text)
    IN  {c.hash : c \in {d \in commits :
                            \E n \in 1..Len(lines) : lines[n] \o <<"\n">> = LogEntry(d)}}

\* C11: a load of a content made of serialized entries adds exactly the
\* hashes of those entries, and a load of a content whose hashes the ledger
\* already holds leaves the ledger unchanged (so does the load of any other
\* serialization of the loaded set).
C11_LoadRoundTrip ==
    [][(lpc = "resp" /\ lresp.kind = "ok")
       => (/\ processedCommits' =
                 processedCommits \cup EntryHashes(lresp.content, RoundCommits)
           /\ processedCommits = EntryHashes(lresp.content, RoundCommits)
              => processedCommits' = processedCommits)]_vars

C11_Witness ==
    /\ loads = 2 /\ lpc = "idle"
    /\ processedCommits = RoundHashes
    /\ processedCommits = EntryHashes(remote.content, RoundCommits)

\* C12: an invocation writes only the entry of the commit it first read, and
\* ends skipped or without a source only before any conflict.  The code
\* retries a conflict by calling trackGitChange again, which reads the latest
\* commit and runs the dedup check anew.
C12_RetrySameCommit ==
    \A i \in Invocations :
        /\ pc[i] \in {"fetch_resp", "writing", "write_resp", "recorded"} => cur[i] = first[i]
        /\ pc[i] \in {"skipped", "returned"} => conflicts[i] = 0

\* C13: a write is issued only by the continuation of a fetch, with the tag
\* that fetch returned (none after a 404), and it is the invocation's n-th
\* write after its n-th fetch; a conflict leaves no tag behind.
C13_RefetchBeforeRewrite ==
    /\ [](\A i \in Invocations :
            /\ writes[i] <= fetches[i]
            /\ pc[i] \in {"writing", "write_resp"} => writes[i] = fetches[i]
            /\ pc[i] \notin {"writing", "write_resp"} => sha[i] = NoSha)
    /\ [][\A i \in Invocations :
            (Stepped(i) /\ writes'[i] # writes[i])
            => (/\ pc[i] = "fetch_resp" /\ pc'[i] = "writing"
                /\ writes'[i] = fetches[i]
                /\ resp[i].kind = "ok" => sha'[i] = [some |-> TRUE, val |-> resp[i].content]
                /\ resp[i].kind = "404" => sha'[i] = [some |-> FALSE, val |-> Empty])]_vars

C13_Witness ==
    \E i \in Invocations :
        /\ pc[i] = "writing" /\ conflicts[i] = 1 /\ writes[i] = 2
        /\ sha[i].some /\ HasEntry(sha[i].val, ExternalCommit(1).hash)

RecordStep(i) == Stepped(i) /\ pc[i] = "write_resp" /\ resp[i].kind = "ok"

LoadStep == lpc = "resp" /\ lpc' = "idle"

\* C14: the ledger never shrinks; the step of an invocation that follows its
\* accepted write adds exactly the hash of its commit and every other step of
\* an invocation leaves the ledger unchanged; the end of a load adds the
\* hashes of the entries of the content it fetched; nothing else changes it.
C14_LedgerFrame ==
    [][/\ processedCommits \subseteq processedCommits'
       /\ \A i \in Invocations :
             /\ RecordStep(i) => processedCommits' = processedCommits \cup {cur[i].hash}
             /\ (Stepped(i) /\ ~RecordStep(i)) => processedCommits' = processedCommits
       /\ LoadStep
          => processedCommits' = processedCommits \cup
                (IF lresp.kind = "ok" THEN EntryHashes(lresp.content, AllCommits) ELSE {})
       /\ processedCommits' # processedCommits
          => (LoadStep \/ \E i \in Invocations : RecordStep(i))]_vars

C14_Witness ==
    /\ pc[1] = "recorded" /\ cur[1].hash \in processedCommits
    /\ pc[2] = "failed" /\ conflicts[2] > 0 /\ cur[2].hash \notin processedCommits
    /\ Cardinality(processedCommits) = 2

\* C15: the mirror file changes only in the step that follows an accepted
\* write of this process, and then holds the content of that write.  The code
\* writes the mirror before it requests the write (line 160), so a conflict
\* or a failure leaves in it a content the remote log never held.
C15_MirrorOnlyOnSuccess ==
    [][mirror' # mirror
       => \E i \in Invocations :
             /\ RecordStep(i)
             /\ mirror' = [written |-> TRUE, content |-> content[i]]]_vars

\* the invocation is at a point where the code finds nothing to sync
NoSourceAt(i) ==
    \/ pc[i] = "idle" /\ ws = "nofolder"
    \/ pc[i] = "repo" /\ ws = "notrepo"
    \/ pc[i] = "log" /\ head = NoCommit

C17_LedgerNeverPersisted == workspaceState = Unsaved

AcceptedWrite(i) ==
    /\ pc[i] = "writing" /\ pc'[i] = "write_resp"
    /\ resp'[i].kind = "ok"
    /\ remote' = File(content[i])

\* C17: the step that follows an accepted write stores the ledger, as it is
\* after that step, in the workspace state, and no other step writes the
\* workspace state; the other persistent effects of an invocation are the
\* accepted remote write and the mirror file written after a fetch.
C17_PersistedOnRecord ==
    [][/\ \A i \in Invocations :
             RecordStep(i)
             => workspaceState' = [written |-> TRUE, value |-> processedCommits']
       /\ workspaceState' # workspaceState => \E i \in Invocations : RecordStep(i)
       /\ \A i \in Invocations :
             (Stepped(i) /\ remote' # remote) => AcceptedWrite(i)
       /\ mirror' # mirror
          => \E i \in Invocations : Stepped(i) /\ pc[i] = "fetch_resp" /\ pc'[i] = "writing"]_vars

C17_Witness ==
    /\ workspaceState.written
    /\ workspaceState.value = processedCommits
    /\ Cardinality(workspaceState.value) = 2
    /\ mirror.written
    /\ \E i \in Invocations : pc[i] = "recorded"

\* C18: after its write has been accepted an invocation only records the
\* commit and is then finished: it makes no further fetch, mirror write or
\* remote write, whatever number of conflicts preceded the accepted write.
C18_OneAppend ==
    [][\A i \in Invocations :
          /\ (Stepped(i) /\ pc[i] = "write_resp" /\ resp[i].kind = "ok")
             => pc'[i] = "recorded"
          /\ pc[i] = "recorded"
             => (/\ pc'[i] = "recorded"
                 /\ fetches'[i] = fetches[i]
                 /\ writes'[i] = writes[i]
                 /\ resp'[i] = resp[i])
          /\ (Stepped(i) /\ remote' # remote) => AcceptedWrite(i)
          /\ AcceptedWrite(i) => pc[i] # "recorded"]_vars

C18_Witness ==
    \E i \in Invocations :
        /\ pc[i] = "recorded" /\ conflicts[i] > 0
        /\ fetches[i] = 2 /\ writes[i] = 2
        /\ HasEntry(remote.content, cur[i].hash)

====
